---- MODULE Spec2Model ----
(***************************************************************************)
(* Model of the Bloch-sphere state engine: the coordinate conversions and  *)
(* slerp of utils/quantum-math.ts, the useAnimation hook (hooks/           *)
(* useAnimation.ts) and the onStateChange notification effect of           *)
(* BlochSphere.tsx, run by React (render, passive effects) and by the      *)
(* browser's requestAnimationFrame queue.                                  *)
(*                                                                         *)
(* Numbers.  A JavaScript number that is an angle is an integer count of   *)
(* degrees; every other number (a sine, a Cartesian component, a progress  *)
(* fraction, an interpolation weight) is a fixed-point integer with Unit   *)
(* standing for 1.0.  The not-a-number value is the sentinel NaN, and it   *)
(* propagates through every operation as it does in IEEE arithmetic.       *)
(***************************************************************************)
EXTENDS Integers, Sequences, FiniteSets, TLC

\* ------------------------------------------------------------------------
\* Fixed-point arithmetic
\* ------------------------------------------------------------------------

\* 1.0 in fixed point
Unit == 10000

\* the IEEE not-a-number value
NaN == 0 - 999999

\* half a turn and a full turn (Math.PI and 2 * Math.PI) in degrees
PI == 180

TwoPI == 2 * PI

IsNaN(v) == v = NaN

\* a negative number too small to change 2 * Math.PI when added to it
\* (-1e-17: half the spacing of the doubles at 2 * Math.PI is 4.4e-16)
NegTiny == 0 - 888888

\* v ** 2 of a finite number; the square of -1e-17 is lost in a sum with
\* any number of the grid
Sq(v) == IF v = NegTiny THEN 0 ELSE v * v

Abs(v) == IF v < 0 THEN 0 - v ELSE v

\* a / b rounded to the nearest integer, b > 0
RDiv(a, b) == (2 * a + b) \div (2 * b)

Min(a, b) == IF a < b THEN a ELSE b

Max(a, b) == IF a > b THEN a ELSE b

\* Math.min / Math.max: NaN if either argument is NaN
MathMin(a, b) == IF IsNaN(a) \/ IsNaN(b) THEN NaN ELSE Min(a, b)

MathMax(a, b) == IF IsNaN(a) \/ IsNaN(b) THEN NaN ELSE Max(a, b)

\* sin(d degrees) * Unit for d = 0..90
SinTab ==
  << 0, 175, 349, 523, 698, 872, 1045, 1219, 1392, 1564,
     1736, 1908, 2079, 2250, 2419, 2588, 2756, 2924, 3090, 3256,
     3420, 3584, 3746, 3907, 4067, 4226, 4384, 4540, 4695, 4848,
     5000, 5150, 5299, 5446, 5592, 5736, 5878, 6018, 6157, 6293,
     6428, 6561, 6691, 6820, 6947, 7071, 7193, 7314, 7431, 7547,
     7660, 7771, 7880, 7986, 8090, 8192, 8290, 8387, 8480, 8572,
     8660, 8746, 8829, 8910, 8988, 9063, 9135, 9205, 9272, 9336,
     9397, 9455, 9511, 9563, 9613, 9659, 9703, 9744, 9781, 9816,
     9848, 9877, 9903, 9925, 9945, 9962, 9976, 9986, 9994, 9998,
     10000 >>

\* Math.sin of an angle in degrees
Sin(d) ==
  IF IsNaN(d) THEN NaN
  ELSE LET m == d % 360
       IN  IF m <= 90 THEN SinTab[m + 1]
           ELSE IF m <= 180 THEN SinTab[180 - m + 1]
           ELSE IF m <= 270 THEN 0 - SinTab[m - 180 + 1]
           ELSE 0 - SinTab[360 - m + 1]

\* Math.cos of an angle in degrees
Cos(d) == IF IsNaN(d) THEN NaN ELSE Sin(d + 90)

\* the one element of a singleton set; {F(v) : v \in {e}} is F(e) with e
\* evaluated once
Only(S) == CHOOSE r \in S : TRUE

\* the angle in 0..180 whose cosine is nearest to c (-Unit..Unit)
NearestAcos(c) ==
  Only({ IF d0 = 0 THEN 0
         ELSE IF Cos(d0 - 1) - c <= c - Cos(d0) THEN d0 - 1 ELSE d0 :
         d0 \in {CHOOSE d \in 0..180 :
                   Cos(d) <= c /\ (d = 0 \/ Cos(d - 1) > c)} })

\* Math.acos
Acos(c) ==
  Only({ IF IsNaN(v) \/ v > Unit \/ v < 0 - Unit THEN NaN
         ELSE NearestAcos(v) : v \in {c} })

\* the angle in 0..90 nearest to the direction (b, a) of the first quadrant
QuadrantAngle(a, b) ==
  Only({ IF q0 = 0 THEN 0
         ELSE IF a * Cos(q0 - 1) - b * Sin(q0 - 1)
                 < b * Sin(q0) - a * Cos(q0)
              THEN q0 - 1 ELSE q0 :
         q0 \in {CHOOSE q \in 0..90 :
                   a * Cos(q) - b * Sin(q) <= 0
                   /\ (q = 0 \/ a * Cos(q - 1) - b * Sin(q - 1) > 0)} })

\* the angle in -180..180 of the direction (x, y), not both zero
QuadrantSigned(y, x) ==
  Only({ IF x >= 0 /\ y >= 0 THEN q
         ELSE IF x < 0 /\ y >= 0 THEN 180 - q
         ELSE IF x < 0 THEN q - 180
         ELSE 0 - q :
         q \in {QuadrantAngle(Abs(y), Abs(x))} })

\* Math.atan2(y, x) in degrees, in -180..180; atan2(0, 0) is 0, and
\* atan2(-1e-17, x) is -1e-17 / x for x > 0
Atan2(y, x) ==
  Only({ IF IsNaN(v) \/ IsNaN(u) THEN NaN
         ELSE IF v = NegTiny
              THEN (IF u > 0 THEN NegTiny
                    ELSE IF u < 0 THEN 0 - PI ELSE 0 - (PI \div 2))
         ELSE IF v = 0 /\ u = 0 THEN 0
         ELSE QuadrantSigned(v, u) : v \in {y}, u \in {x} })

RECURSIVE SqrtSearch(_, _, _)
\* the largest r in lo..hi with r * r <= n
SqrtSearch(n, lo, hi) ==
  IF lo >= hi THEN lo
  ELSE LET mid == (lo + hi + 1) \div 2
       IN  IF mid * mid <= n THEN SqrtSearch(n, mid, hi)
           ELSE SqrtSearch(n, lo, mid - 1)

\* Math.sqrt(n / Unit^2) * Unit for a sum of squares n, rounded to nearest
Sqrt(n) ==
  Only({ IF v - r * r > r THEN r + 1 ELSE r :
         v \in {n}, r \in {SqrtSearch(n, 0, 46340)} })

\* ------------------------------------------------------------------------
\* utils/quantum-math.ts
\* ------------------------------------------------------------------------

NaNCoords == [theta |-> NaN, phi |-> NaN]

HasNaN(c) == IsNaN(c.theta) \/ IsNaN(c.phi)

sphericalToCartesian(coords) ==
  IF HasNaN(coords)
  THEN [x |-> NaN, y |-> NaN,
        z |-> IF IsNaN(coords.theta) THEN NaN ELSE Cos(coords.theta)]
  ELSE [x |-> RDiv(Sin(coords.theta) * Cos(coords.phi), Unit),
        y |-> RDiv(Sin(coords.theta) * Sin(coords.phi), Unit),
        z |-> Cos(coords.theta)]

\* a phi left as Math.atan2 returns it
KeepPhi(phi) == phi

RECURSIVE NormalizePhiUp(_)
\* while (phi < 0) phi += 2 * Math.PI; -1e-17 + 2 * Math.PI is
\* 2 * Math.PI in floating point
NormalizePhiUp(phi) ==
  IF IsNaN(phi) THEN NaN
  ELSE IF phi = NegTiny THEN TwoPI
  ELSE IF phi < 0 THEN NormalizePhiUp(phi + TwoPI) ELSE phi

RECURSIVE NormalizePhiDown(_)
\* while (phi >= 2 * Math.PI) phi -= 2 * Math.PI
NormalizePhiDown(phi) ==
  IF IsNaN(phi) THEN NaN
  ELSE IF phi >= TwoPI THEN NormalizePhiDown(phi - TwoPI) ELSE phi

\* cartesianToSpherical for a vector of three numbers, none NaN
FromCartesian(cart) ==
  Only({ IF r = 0 /\ cart.y # NegTiny THEN [theta |-> 0, phi |-> 0]
         ELSE [theta |-> Acos(Min(Unit, Max(0 - Unit,
                                IF r = 0 THEN 0
                                ELSE RDiv(cart.z * Unit, r)))),
               phi   |-> NormalizePhiUp(Atan2(cart.y, cart.x))] :
         r \in {Sqrt(Sq(cart.x) + Sq(cart.y) + Sq(cart.z))} })

\* cartesianToSpherical (quantum-math.ts:90-106).  With a NaN component r
\* is NaN, r === 0 is false and theta is Math.acos(NaN); phi is
\* Math.atan2(y, x), NaN only when x or y is
cartesianToSpherical(cart) ==
  Only({ IF IsNaN(c.x) \/ IsNaN(c.y) THEN NaNCoords
         ELSE IF IsNaN(c.z)
         THEN [theta |-> NaN, phi |-> NormalizePhiUp(Atan2(c.y, c.x))]
         ELSE FromCartesian(c) : c \in {cart} })

\* amplitudesToSpherical of the zero vector, without the guard of
\* quantum-math.ts:25-28: 0 / 0
ZeroAmplitudeUnguarded == NaNCoords

\* the result of amplitudesToSpherical for the zero vector
ZeroAmplitude == [theta |-> 0, phi |-> 0]

\* amplitudesToSpherical for finite amplitudes (quantum-math.ts:13-46)
amplitudesToSpherical(amp) ==
  Only({ IF norm = 0 THEN ZeroAmplitude
         ELSE [theta |-> 2 * Acos(Min(Unit, Max(0,
                                   RDiv(alphaMag * Unit, norm)))),
               phi   |-> NormalizePhiDown(NormalizePhiUp(
                           Atan2(amp.beta.imag, amp.beta.real)
                             - Atan2(amp.alpha.imag, amp.alpha.real)))] :
         alphaMag \in {Sqrt(Sq(amp.alpha.real) + Sq(amp.alpha.imag))},
         norm \in {Sqrt(Sq(Sqrt(Sq(amp.alpha.real) + Sq(amp.alpha.imag)))
                        + Sq(Sqrt(Sq(amp.beta.real) + Sq(amp.beta.imag))))} })

\* amplitudes computed from theta instead of theta / 2
sphericalToAmplitudesFullAngle(coords) ==
  [alpha |-> [real |-> Cos(coords.theta), imag |-> 0],
   beta  |-> [real |-> RDiv(Sin(coords.theta) * Cos(coords.phi), Unit),
              imag |-> RDiv(Sin(coords.theta) * Sin(coords.phi), Unit)]]

\* sphericalToAmplitudes (quantum-math.ts:52-67); theta / 2 is a whole
\* number of degrees for the even thetas it is called with
sphericalToAmplitudes(coords) ==
  [alpha |-> [real |-> Cos(coords.theta \div 2), imag |-> 0],
   beta  |-> [real |-> RDiv(Sin(coords.theta \div 2) * Cos(coords.phi), Unit),
              imag |-> RDiv(Sin(coords.theta \div 2) * Sin(coords.phi), Unit)]]

\* the angle between the two points is below the 0.0001 rad threshold of
\* slerp: on the degree grid, it rounds to zero
SlerpEpsilon == 1

\* the dot product of two Cartesian vectors
Dot(a, b) ==
  IF IsNaN(a.x) \/ IsNaN(a.y) \/ IsNaN(a.z)
     \/ IsNaN(b.x) \/ IsNaN(b.y) \/ IsNaN(b.z)
  THEN NaN
  ELSE RDiv(a.x * b.x + a.y * b.y + a.z * b.z, Unit)

\* a coordinate the rounding errors of the floating-point arithmetic decide:
\* a phi of this value is some angle within [0, 2 * Math.PI], and
\* NoiseCoords is some point of the sphere
RoundingNoise == 0 - 777777

NoiseCoords == [theta |-> RoundingNoise, phi |-> RoundingNoise]

\* a phi that is 0 or 2 * Math.PI as the rounding errors decide:
\* Math.atan2(y, x) for x > 0 and a y that is 0, 1e-17 or -1e-17, the last
\* of which the loop of cartesianToSpherical turns into 2 * Math.PI
ZeroOrTwoPI == 0 - 666666

\* a * u + b * v of slerp is a sum of two terms that cancel: in floating
\* point what is left is 0 or a rounding error of either sign.  In the
\* model's arithmetic the terms cancel when their sum is within the
\* rounding of the table, a thousandth of the terms.
Cancels(p, q) ==
  p # 0 /\ q # 0 /\ 1000 * Abs(p + q) <= Abs(p) + Abs(q)

\* the result of cartesianToSpherical for a Cartesian sum of slerp whose
\* x or y is the rest of a cancellation
NoisyPhi(coords, cart, xCancels, yCancels) ==
  IF (xCancels \/ yCancels)
     /\ (xCancels \/ cart.x = 0) /\ (yCancels \/ cart.y = 0)
  THEN [theta |-> coords.theta, phi |-> RoundingNoise]
  ELSE IF yCancels /\ cart.x > 0
  THEN [theta |-> coords.theta, phi |-> ZeroOrTwoPI]
  ELSE coords

\* the sin-weighted sum of slerp (quantum-math.ts:135-145).  For antipodal
\* points omega is Math.PI and Math.sin(Math.PI) is 1.2e-16, not zero: at
\* t = 0 the weights are exactly 1 and 0, at t = 1 exactly 0 and 1, and in
\* between both are of the order of 1e16 and multiply two vectors that
\* cancel but for their rounding errors, which decide the result.  For
\* omega = 0 the weights are 0 / 0.
SlerpWeighted(startCart, endCart, omega, t) ==
  Only({ IF sinOmega = 0
         THEN IF omega = 0 THEN NaNCoords
              ELSE IF t = 0 THEN cartesianToSpherical(startCart)
              ELSE IF t = Unit THEN cartesianToSpherical(endCart)
              ELSE NoiseCoords
         ELSE NoisyPhi(
                cartesianToSpherical(
                  [x |-> RDiv(wa * startCart.x + wb * endCart.x, sinOmega),
                   y |-> RDiv(wa * startCart.y + wb * endCart.y, sinOmega),
                   z |-> RDiv(wa * startCart.z + wb * endCart.z, sinOmega)]),
                [x |-> RDiv(wa * startCart.x + wb * endCart.x, sinOmega),
                 y |-> RDiv(wa * startCart.y + wb * endCart.y, sinOmega)],
                Cancels(RDiv(wa * startCart.x, sinOmega),
                        RDiv(wb * endCart.x, sinOmega)),
                Cancels(RDiv(wa * startCart.y, sinOmega),
                        RDiv(wb * endCart.y, sinOmega))) :
         sinOmega \in {Sin(omega)},
         wa \in {Sin(RDiv((Unit - t) * omega, Unit))},
         wb \in {Sin(RDiv(t * omega, Unit))} })

\* the linear interpolation of slerp (quantum-math.ts:128-133)
SlerpLinear(start, end, t) ==
  [theta |-> start.theta + RDiv(t * (end.theta - start.theta), Unit),
   phi   |-> start.phi + RDiv(t * (end.phi - start.phi), Unit)]

slerp(start, end, t) ==
  Only({ IF ~IsNaN(omega) /\ Abs(omega) < SlerpEpsilon
         THEN IF IsNaN(tt) THEN NaNCoords ELSE SlerpLinear(start, end, tt)
         ELSE IF IsNaN(omega) \/ IsNaN(tt) THEN NaNCoords
         ELSE SlerpWeighted(startCart, endCart, omega, tt) :
         tt \in {t},
         startCart \in {sphericalToCartesian(start)},
         endCart \in {sphericalToCartesian(end)},
         omega \in {Acos(MathMax(0 - Unit, MathMin(Unit,
                       Dot(sphericalToCartesian(start),
                           sphericalToCartesian(end)))))} })

EasingKinds == {"linear", "easeIn", "easeOut", "easeInOut"}

\* easing functions whose easeInOut lacks the -1 of its second half
easingWithoutOffset(easing, t) ==
  IF IsNaN(t) THEN NaN
  ELSE IF easing = "linear" THEN t
  ELSE IF easing = "easeIn" THEN RDiv(t * t, Unit)
  ELSE IF easing = "easeOut" THEN RDiv(t * (2 * Unit - t), Unit)
  ELSE IF 2 * t < Unit THEN RDiv(2 * t * t, Unit)
       ELSE RDiv((4 * Unit - 2 * t) * t, Unit)

\* easingFunctions[easing](t), t in fixed point
easingFunctions(easing, t) ==
  IF IsNaN(t) THEN NaN
  ELSE IF easing = "linear" THEN t
  ELSE IF easing = "easeIn" THEN RDiv(t * t, Unit)
  ELSE IF easing = "easeOut" THEN RDiv(t * (2 * Unit - t), Unit)
  ELSE IF 2 * t < Unit THEN RDiv(2 * t * t, Unit)
       ELSE RDiv((4 * Unit - 2 * t) * t, Unit) - Unit


\* ------------------------------------------------------------------------
\* JavaScript values
\* ------------------------------------------------------------------------

\* a === b on numbers: NaN is equal to nothing
StrictEq(a, b) == ~IsNaN(a) /\ ~IsNaN(b) /\ a = b

\* the components of two SphericalCoordinates are pairwise ===
SameCoords(a, b) == StrictEq(a.theta, b.theta) /\ StrictEq(a.phi, b.phi)

\* useRef(null) of a frame handle, and of a timestamp
Null == 0

NoTime == 0 - 1

\* useRef<SphericalCoordinates | null>(null)
NullCoords == [theta |-> 0 - 1, phi |-> 0 - 1]

\* onStateChange not passed
Undefined == 0

\* no exported function has been called
NoCall == [op |-> "none"]

Coords(th, ph) == [theta |-> th, phi |-> ph]

\* ------------------------------------------------------------------------
\* Inputs
\* ------------------------------------------------------------------------

\* the targets the parent passes: |+>, |+i>, and the north pole written
\* with a non-zero phi
Targets == {Coords(90, 0), Coords(90, 90), Coords(0, 90)}

\* animation.duration values (frame timestamps advance in the same units)
Durations == {0, 2}

\* animation.easing values
Easings == {"linear", "easeIn"}

\* identities of the onStateChange callback the parent passes
Callbacks == {1, 2}

\* the largest gap between two animation frames
MaxDt == 2

\* the number of times the parent re-renders the component
MaxRenders == 2

Props ==
  [target : Targets, enabled : BOOLEAN, duration : Durations,
   easing : Easings, onStateChange : Callbacks]

\* ------------------------------------------------------------------------
\* State
\* ------------------------------------------------------------------------

VARIABLES
  rendered,       \* what the latest render of BlochSphere / useAnimation saw:
                  \* its props, currentState and targetChanged
  updateQueue,    \* the value of the last setCurrentState not yet rendered
  pendingEffects, \* the passive effects the latest commit scheduled
  hasCleanup,     \* the animation effect that ran last returned a cleanup
  animationRef,   \* useAnimation refs
  startStateRef,
  startTimeRef,
  isFirstRender,
  prevTargetRef,
  prevStateRef,   \* BlochSphere ref
  frames,         \* requestAnimationFrame callbacks requested, not cancelled
  now,            \* timestamp of the latest frame of the animation in flight
  renders,        \* how many times the parent has re-rendered the component
  changes,        \* how many of these renders delivered another target
  out,            \* onAnimationStart / onAnimationEnd calls of the last step
  notified,       \* onStateChange calls of the last step
  ticked,         \* the animation whose frame callback the last step ran
  started,        \* the animation started last: the render that caused it
  received,       \* the render that last delivered a differing target to
                  \* an enabled driver with an animation in flight
  status,         \* what became of the target delivered last
  step,           \* the kind of the last step
  stateObject,    \* which object the state holds: "given", one the parent
                  \* passed as a target, or "computed", one slerp returned
  queuedObject,   \* which object the queued update holds: "none", "given",
                  \* "computed", or "held", the one the state already holds
  notifiedObject, \* which object prevStateRef holds: "none", "given" or
                  \* "computed"
  mounted,        \* the component has not been unmounted
  starts,         \* how many times onAnimationStart has been called
  ended,          \* the animations whose onAnimationEnd has been called, one
                  \* entry for each call
  passed,         \* what the frame callback of the last step computed: the
                  \* progress given to the easing function and the value
                  \* given to slerp
  call            \* the last call of an exported function: its arguments
                  \* and its result

vars ==
  << rendered, updateQueue, pendingEffects, hasCleanup, animationRef,
     startStateRef, startTimeRef, isFirstRender, prevTargetRef, prevStateRef,
     frames, now, renders, changes, out, notified, ticked, started, received, status,
     step, stateObject, queuedObject, notifiedObject, mounted, starts, ended,
     passed, call >>

\* a handle requestAnimationFrame has not handed out to a pending callback
\* nor left in animationRef
FreshHandle(pending, ref) ==
  CHOOSE h \in 1..(Cardinality(pending) + 2) :
    h # ref /\ \A f \in pending : f.id # h

\* a cancelAnimationFrame that cancels nothing
cancelNothing(pending, handle) == pending

\* cancelAnimationFrame(handle)
cancelAnimationFrame(pending, handle) == {f \in pending : f.id # handle}

\* the state of a render is another object than the state of the render
\* before (Object.is): an update is queued and it does not hold the object
\* the state already holds
StateObjectChanged == updateQueue # << >> /\ queuedObject # "held"

\* the state a render sees: the queued update if there is one
NextState == IF updateQueue # << >> THEN updateQueue[1]
             ELSE rendered.currentState

\* the dependency array of the animation effect differs (Object.is) from
\* the one of the previous render
DepsChanged(p) ==
  \/ p.target.theta # rendered.target.theta
  \/ p.target.phi # rendered.target.phi
  \/ p.enabled # rendered.enabled
  \/ p.duration # rendered.duration
  \/ p.easing # rendered.easing

\* a comparison of the targets that looks at theta only
TargetChangedThetaOnly(prev, target) == ~StrictEq(prev.theta, target.theta)

\* a comparison of the targets that finds every target new
TargetChangedAlways(prev, target) == TRUE

\* targetChanged (useAnimation.ts:32-34)
TargetChanged(prev, target) == ~SameCoords(prev, target)

\* ------------------------------------------------------------------------
\* Render
\* ------------------------------------------------------------------------

\* the body of BlochSphere and useAnimation run with props p; React has
\* flushed the passive effects of the previous commit before it renders
RenderWith(p) ==
  /\ rendered' = [target |-> p.target, enabled |-> p.enabled,
                  duration |-> p.duration, easing |-> p.easing,
                  onStateChange |-> p.onStateChange,
                  currentState |-> NextState,
                  stateChanged |-> StateObjectChanged,
                  targetChanged |-> TargetChanged(prevTargetRef, p.target)]
  /\ updateQueue' = << >>
  /\ stateObject' = IF StateObjectChanged THEN queuedObject ELSE stateObject
  /\ queuedObject' = "none"
  /\ pendingEffects' =
       [anim   |-> DepsChanged(p),
        notify |-> StateObjectChanged
                   \/ p.onStateChange # rendered.onStateChange]
  /\ out' = << >>
  /\ notified' = << >>
  /\ ticked' = 0
  /\ passed' = << >>
  /\ UNCHANGED << hasCleanup, animationRef, startStateRef, startTimeRef,
                  isFirstRender, prevTargetRef, prevStateRef, frames, now,
                  notifiedObject, mounted, starts, ended, call >>

CurrentProps ==
  [target |-> rendered.target, enabled |-> rendered.enabled,
   duration |-> rendered.duration, easing |-> rendered.easing,
   onStateChange |-> rendered.onStateChange]

EffectsPending == pendingEffects.anim \/ pendingEffects.notify

\* the target of the props p is another point than the one delivered before
Differs(a, b) == ~SameCoords(a, b)

\* the animation configuration of the props p is not the one delivered before
ConfigDiffers(p) ==
  \/ p.enabled # rendered.enabled
  \/ p.duration # rendered.duration
  \/ p.easing # rendered.easing

\* the parent renders the component with props p
ParentRender(p) ==
  /\ mounted
  /\ ~EffectsPending
  /\ renders < MaxRenders
  /\ RenderWith(p)
  /\ renders' = renders + 1
  /\ changes' = IF Differs(rendered.target, p.target) THEN changes + 1
                ELSE changes
  /\ received' = IF Differs(rendered.target, p.target) /\ p.enabled
                    /\ frames # {}
                 THEN renders + 1 ELSE received
  /\ status' = IF ~Differs(rendered.target, p.target) THEN status
               ELSE IF status \in {"running", "superseded"} THEN "superseded"
               ELSE "delivered"
  /\ step' = IF Differs(rendered.target, p.target) THEN "target"
             ELSE IF ConfigDiffers(p) THEN "config"
             ELSE "identical"
  /\ UNCHANGED started

\* React re-renders the component because of a setCurrentState
StateRender ==
  /\ mounted
  /\ ~EffectsPending
  /\ updateQueue # << >>
  /\ RenderWith(CurrentProps)
  /\ step' = "state"
  /\ UNCHANGED << renders, changes, started, received, status >>

\* the default threshold of useAnimationStatus, 0.001 rad: below the degree
\* grid, so that a difference exceeds it when it is not zero
StatusThreshold == 0

\* useAnimationStatus (useAnimation.ts:108-116); a comparison with NaN is
\* false
useAnimationStatus(targetState, currentState) ==
  LET thetaDiff == IF IsNaN(targetState.theta) \/ IsNaN(currentState.theta)
                   THEN NaN
                   ELSE Abs(targetState.theta - currentState.theta)
      phiDiff   == IF IsNaN(targetState.phi) \/ IsNaN(currentState.phi)
                   THEN NaN
                   ELSE Abs(targetState.phi - currentState.phi)
  IN  \/ (~IsNaN(thetaDiff) /\ thetaDiff > StatusThreshold)
      \/ (~IsNaN(phiDiff) /\ phiDiff > StatusThreshold)

\* ------------------------------------------------------------------------
\* Passive effects
\* ------------------------------------------------------------------------

\* the closure of animate: what the frame callback of an animation holds
Frame(handle, r, tag) ==
  [id |-> handle, target |-> r.target, duration |-> r.duration,
   easing |-> r.easing, anim |-> tag]

\* a cleanup that leaves the requested frame callback alone
AnimationCleanupKeeps(pending) == pending

\* the cleanup the animation effect returned (useAnimation.ts:95-99)
AnimationCleanup(pending) ==
  IF animationRef # Null
  THEN cancelAnimationFrame(pending, animationRef)
  ELSE pending

\* whether the target object of the render is the object the state holds:
\* it can be when the two hold the same numbers, the state holding an
\* object the parent passed before or one that onStateChange handed to the
\* parent (BlochSphere.tsx:91-93); the parent decides
SharedChoices ==
  IF rendered.currentState = rendered.target THEN BOOLEAN ELSE {FALSE}

\* the body of the animation effect (useAnimation.ts:36-100), run while the
\* callbacks in pending are requested
AnimationEffect(pending) ==
  IF isFirstRender
  THEN \* setCurrentState(targetState) is given the object the state
       \* already holds: React drops the update
       /\ isFirstRender' = FALSE
       /\ prevTargetRef' = rendered.target
       /\ hasCleanup' = FALSE
       /\ frames' = pending
       /\ out' = << >>
       /\ UNCHANGED << updateQueue, queuedObject, animationRef,
                       startStateRef, startTimeRef, started, status, starts >>
  ELSE IF ~rendered.targetChanged
  THEN /\ hasCleanup' = FALSE
       /\ frames' = pending
       /\ out' = << >>
       /\ UNCHANGED << isFirstRender, prevTargetRef, updateQueue,
                       queuedObject, animationRef, startStateRef,
                       startTimeRef, started, status, starts >>
  ELSE IF ~rendered.enabled
  THEN /\ prevTargetRef' = rendered.target
       /\ \E shared \in SharedChoices :
            IF shared /\ updateQueue = << >>
            THEN \* setCurrentState is given the object the state holds
                 \* and nothing is queued: React drops the update
                 UNCHANGED << updateQueue, queuedObject >>
            ELSE /\ updateQueue' = << rendered.target >>
                 /\ queuedObject' = IF shared THEN "held" ELSE "given"
       /\ hasCleanup' = FALSE
       /\ frames' = pending
       /\ out' = << >>
       /\ status' = "jumped"
       /\ UNCHANGED << isFirstRender, animationRef, startStateRef,
                       startTimeRef, started, starts >>
  ELSE LET kept   == IF animationRef # Null
                     THEN cancelAnimationFrame(pending, animationRef)
                     ELSE pending
           handle == FreshHandle(kept, animationRef)
       IN  /\ prevTargetRef' = rendered.target
           /\ startStateRef' = rendered.currentState
           /\ startTimeRef' = NoTime
           /\ out' = << "start" >>
           /\ starts' = starts + 1
           /\ animationRef' = handle
           /\ frames' = kept \cup {Frame(handle, rendered, renders)}
           /\ hasCleanup' = TRUE
           /\ started' = renders
           /\ status' = "running"
           /\ UNCHANGED << isFirstRender, updateQueue, queuedObject >>

\* the state a render shows is the one notified last (BlochSphere.tsx:85-89)
StateUnchanged(prev, current) ==
  /\ prev # NullCoords
  /\ StrictEq(prev.theta, current.theta)
  /\ StrictEq(prev.phi, current.phi)

\* the outcomes of the comparison at BlochSphere.tsx:85-89.  Two states on
\* different points of the model's grid differ.  Two on the same point are
\* equal when they are one object (the state has not changed since the
\* comparison before) or hold the numbers the parent passed; a state slerp
\* has computed can be one rounding step away from another on the same
\* point, and then === tells them apart.
UnchangedChoices ==
  IF ~StateUnchanged(prevStateRef, rendered.currentState) THEN {FALSE}
  ELSE IF ~rendered.stateChanged THEN {TRUE}
  ELSE IF stateObject = "given" /\ notifiedObject = "given" THEN {TRUE}
  ELSE BOOLEAN

\* the body of the notification effect (BlochSphere.tsx:82-96)
NotifyEffect ==
  \E unchanged \in UnchangedChoices :
    IF rendered.onStateChange # Undefined /\ ~unchanged
    THEN /\ prevStateRef' = rendered.currentState
         /\ notifiedObject' = stateObject
         /\ notified' = << [state |-> rendered.currentState,
                            cart  |-> sphericalToCartesian(
                                        rendered.currentState)] >>
    ELSE /\ notified' = << >>
         /\ UNCHANGED << prevStateRef, notifiedObject >>

\* React runs the passive effects of the latest commit: the cleanups of the
\* effects that run again, then the effects in the order of their hooks
FlushEffects ==
  /\ EffectsPending
  /\ pendingEffects' = [anim |-> FALSE, notify |-> FALSE]
  /\ IF pendingEffects.anim
     THEN AnimationEffect(IF hasCleanup THEN AnimationCleanup(frames)
                          ELSE frames)
     ELSE /\ out' = << >>
          /\ UNCHANGED << isFirstRender, prevTargetRef, updateQueue,
                          queuedObject, animationRef, startStateRef,
                          startTimeRef, hasCleanup, frames, started, status,
                          starts >>
  /\ IF pendingEffects.notify
     THEN NotifyEffect
     ELSE notified' = << >> /\ UNCHANGED << prevStateRef, notifiedObject >>
  /\ ticked' = 0
  /\ passed' = << >>
  /\ step' = "effects"
  /\ UNCHANGED << rendered, now, renders, changes, received, stateObject,
                  mounted, ended, call >>

\* ------------------------------------------------------------------------
\* Animation frames
\* ------------------------------------------------------------------------

\* Math.min(elapsed / duration, 1): 0 / 0 is NaN, x / 0 is Infinity
Progress(elapsed, duration) ==
  IF duration = 0 THEN (IF elapsed = 0 THEN NaN ELSE Unit)
  ELSE IF duration > 0 THEN Min(RDiv(elapsed * Unit, duration), Unit)
  ELSE 0 - RDiv(elapsed * Unit, 0 - duration)

\* progress < 1, false of NaN
LessThanOne(progress) == ~IsNaN(progress) /\ progress < Unit

\* a callback that requests another frame whatever the progress is
RequestedAlways(left, f, handle, progress) ==
  left \cup {[f EXCEPT !.id = handle]}

\* the callbacks requested after animate has run: the one it has requested
\* with requestAnimationFrame(animate) while progress < 1
\* (useAnimation.ts:85-86)
Requested(left, f, handle, progress) ==
  IF LessThanOne(progress) THEN left \cup {[f EXCEPT !.id = handle]}
  ELSE left

\* the browser runs the frame callback f (animate, useAnimation.ts:69-91),
\* dt after the previous animation frame.  Timestamps are only subtracted
\* from one another, so the origin of the clock is put at the first frame
\* of each animation, and the clock is put back to it when the callback
\* leaves none requested: the next one to read it starts an animation.
Tick(f, dt) ==
  LET timestamp    == IF startTimeRef = NoTime THEN 0 ELSE now + dt
      startTime    == IF startTimeRef = NoTime THEN timestamp
                      ELSE startTimeRef
      elapsed      == timestamp - startTime
      progress     == Progress(elapsed, f.duration)
      easedProgress == easingFunctions(f.easing, progress)
      interpolated == slerp(startStateRef, f.target, easedProgress)
      left         == frames \ {f}
      handle       == FreshHandle(left, animationRef)
  IN  /\ f \in frames
      /\ now' = IF Requested(left, f, handle, progress) = {} THEN 0
                ELSE timestamp
      /\ startTimeRef' = startTime
      /\ updateQueue' = << interpolated >>
      /\ queuedObject' = "computed"
      /\ frames' = Requested(left, f, handle, progress)
      /\ IF LessThanOne(progress)
         THEN /\ animationRef' = handle
              /\ out' = << >>
              /\ ended' = ended
              /\ status' = status
         ELSE /\ animationRef' = Null
              /\ out' = << "end" >>
              /\ ended' = Append(ended, f.anim)
              /\ status' = IF status = "running" THEN "completed"
                           ELSE status
      /\ ticked' = f.anim
      /\ passed' = << [elapsed |-> elapsed, duration |-> f.duration,
                       easing |-> f.easing, progress |-> progress,
                       t |-> easedProgress] >>
      /\ notified' = << >>
      /\ step' = "frame"
      /\ UNCHANGED << rendered, pendingEffects, hasCleanup, startStateRef,
                      isFirstRender, prevTargetRef, prevStateRef, renders,
                      changes, started, received, stateObject, notifiedObject,
                      mounted, starts, call >>

\* ------------------------------------------------------------------------
\* Specification
\* ------------------------------------------------------------------------

\* the component has been rendered for the first time with props p; the
\* effects of that commit have not run yet
Mounted(p) ==
  /\ rendered = [target |-> p.target, enabled |-> p.enabled,
                 duration |-> p.duration, easing |-> p.easing,
                 onStateChange |-> p.onStateChange,
                 currentState |-> p.target,
                 stateChanged |-> TRUE,
                 targetChanged |-> TargetChanged(p.target, p.target)]
  /\ updateQueue = << >>
  /\ pendingEffects = [anim |-> TRUE, notify |-> TRUE]
  /\ hasCleanup = FALSE
  /\ animationRef = Null
  /\ startStateRef = p.target
  /\ startTimeRef = NoTime
  /\ isFirstRender = TRUE
  /\ prevTargetRef = p.target
  /\ prevStateRef = NullCoords
  /\ frames = {}
  /\ now = 0
  /\ renders = 0
  /\ changes = 0
  /\ out = << >>
  /\ notified = << >>
  /\ ticked = 0
  /\ started = 0
  /\ received = 0
  /\ status = "idle"
  /\ step = "mount"
  /\ stateObject = "given"
  /\ queuedObject = "none"
  /\ notifiedObject = "none"
  /\ mounted = TRUE
  /\ starts = 0
  /\ ended = << >>
  /\ passed = << >>
  /\ call = NoCall

Init == \E p \in Props : Mounted(p)

Next ==
  \/ \E p \in Props : ParentRender(p)
  \/ StateRender
  \/ FlushEffects
  \/ \E f \in frames, dt \in 1..MaxDt : Tick(f, dt)

Spec == Init /\ [][Next]_vars

\* the frame callbacks are scheduled fairly, and React runs the effects and
\* the re-renders it has scheduled
FairSpec ==
  /\ Spec
  /\ WF_vars(FlushEffects)
  /\ WF_vars(StateRender)
  /\ WF_vars(\E f \in frames, dt \in 1..MaxDt : Tick(f, dt))

\* the parent stops rendering the component: React unmounts it and runs the
\* cleanup the animation effect returned last (useAnimation.ts:95-99);
\* the notification effect has none.  React runs the passive effects of
\* the previous commit before the render that unmounts.
Unmount ==
  /\ mounted
  /\ ~EffectsPending
  /\ mounted' = FALSE
  /\ frames' = IF hasCleanup THEN AnimationCleanup(frames) ELSE frames
  /\ hasCleanup' = FALSE
  /\ out' = << >>
  /\ notified' = << >>
  /\ ticked' = 0
  /\ passed' = << >>
  /\ step' = "unmount"
  /\ UNCHANGED << rendered, updateQueue, pendingEffects, animationRef,
                  startStateRef, startTimeRef, isFirstRender, prevTargetRef,
                  prevStateRef, now, renders, changes, started, received,
                  status, stateObject, queuedObject, notifiedObject, starts,
                  ended, call >>

\* the component from its first render to its unmounting; a frame callback
\* that is still requested runs whether the component is mounted or not
LifeNext ==
  \/ Next
  \/ Unmount

LifeSpec == Init /\ [][LifeNext]_vars

\* ------------------------------------------------------------------------
\* Calls of the exported functions (index.ts:21-31)
\* ------------------------------------------------------------------------

\* the state of the component
driverVars ==
  << rendered, updateQueue, pendingEffects, hasCleanup, animationRef,
     startStateRef, startTimeRef, isFirstRender, prevTargetRef, prevStateRef,
     frames, now, renders, changes, out, notified, ticked, started, received,
     status, step, stateObject, queuedObject, notifiedObject, mounted, starts,
     ended, passed >>

\* the polar and azimuthal angles of the points passed to the functions.
\* theta = 180 is left out: Math.sin(Math.PI) is 1.2e-16 there, which keeps
\* phi alive in floating point and is zero in fixed point.
Thetas == {30, 60, 90, 120, 150}

Phis == {0, 45, 90, 135, 180, 225, 270, 315}

\* the north pole, written with the phis at which 0 * Math.cos(phi) and
\* 0 * Math.sin(phi) are +0 (elsewhere they are -0, and Math.atan2 of
\* signed zeros is 0 or +-Math.PI)
PolePoints == {Coords(0, ph) : ph \in {0, 45, 90}}

Points == {Coords(th, ph) : th \in Thetas, ph \in Phis} \cup PolePoints

\* the points slerp is called with: those whose Cartesian vector has norm 1
\* in fixed point as it has in floating point, so that the dot product of a
\* point with itself or with its antipode is 1 or -1 as in the code
SlerpPoints == {c \in Points : c.theta \in {0, 30, 90, 150}}

\* a phi below 2 * Math.PI by less than the grid resolves (2 * Math.PI - 1e-9)
NearTwoPI == 360

\* pairs of points that all but coincide, on either side of phi = 0
WrapPairs ==
  UNION {{<< Coords(th, 0), Coords(th, NearTwoPI) >>,
          << Coords(th, NearTwoPI), Coords(th, 0) >>} : th \in {30, 90}}

\* the pairs of points slerp is called with
SlerpPairs == (SlerpPoints \X SlerpPoints) \cup WrapPairs

\* the number of steps the interval [0, 1] is cut into
Steps == 4

\* interpolation parameters and easing arguments in [0, 1]
Fractions == {RDiv(k * Unit, Steps) : k \in 0..Steps}

\* the values of a Cartesian component and of the real or imaginary part of
\* an amplitude
Components == {0 - Unit, 0, Unit}

\* Cartesian vectors: those of the grid, the zero vector among them, and
\* vectors with x = 1 whose y is a negative number next to zero
Vectors ==
  [x : Components, y : Components, z : Components]
    \cup [x : {Unit}, y : {NegTiny}, z : Components]

\* pairs of complex amplitudes, normalised or not, the zero pair among them
Amplitudes ==
  [alpha : [real : Components, imag : Components],
   beta  : [real : Components, imag : Components]]

\* the longest history of the short histories passed to the component
MaxHistory == 3

\* the default of maxPoints (BlochSphere.tsx:154, Trajectory.tsx:22)
DefaultMaxPoints == 100

\* the states a history is made of
HistoryPoints == {Coords(90, 0), Coords(90, 90)}

\* the histories passed: every short one, and one longer than the default
\* of maxPoints
Histories ==
  UNION {[1..n -> HistoryPoints] : n \in 0..MaxHistory}
    \cup {[i \in 1..(DefaultMaxPoints + 1) |->
             IF i % 2 = 1 THEN Coords(90, 0) ELSE Coords(90, 90)]}

\* the trajectory prop: maxPoints is << >> when it is not given
TrajectoryConfigs ==
  [enabled : BOOLEAN,
   maxPoints : {<< >>} \cup {<< n >> : n \in (0 - 1)..MaxHistory}]

\* points.slice(start) of JavaScript, start an integer
Slice(points, start) ==
  LET from == IF start < 0 THEN Max(Len(points) + start, 0)
              ELSE Min(start, Len(points))
  IN  SubSeq(points, from + 1, Len(points))

\* new THREE.Vector3(cart.x, cart.z, cart.y) (Trajectory.tsx:29)
Vector3(cart) == << cart.x, cart.z, cart.y >>

\* the Trajectory component (Trajectory.tsx:17-44): << >> for null, or the
\* points of the Line it renders
Trajectory(points, maxPoints) ==
  LET recentPoints == Slice(points, 0 - maxPoints)
      linePoints   == [i \in 1..Len(recentPoints) |->
                         Vector3(sphericalToCartesian(recentPoints[i]))]
  IN  IF Len(linePoints) < 2 THEN << >> ELSE << linePoints >>

\* the trajectory element of BlochSphere (BlochSphere.tsx:148-156)
TrajectoryElement(history, trajectory) ==
  IF trajectory.enabled /\ Len(history) > 1
  THEN Trajectory(history,
                  IF trajectory.maxPoints = << >>
                     \/ trajectory.maxPoints[1] = 0
                  THEN DefaultMaxPoints
                  ELSE trajectory.maxPoints[1])
  ELSE << >>

\* slerp(start, end, t) is called
SlerpCall(start, end, t) ==
  /\ call = NoCall
  /\ call' = [op |-> "slerp", start |-> start, end |-> end, t |-> t,
              result |-> slerp(start, end, t)]
  /\ UNCHANGED driverVars

\* cartesianToSpherical(sphericalToCartesian(coords)) is evaluated
\* (quantum-math.test.ts:149-155)
CartesianRoundTrip(coords) ==
  /\ call = NoCall
  /\ call' = [op |-> "cartesianRoundTrip", coords |-> coords,
              result |-> cartesianToSpherical(sphericalToCartesian(coords))]
  /\ UNCHANGED driverVars

\* amplitudesToSpherical(sphericalToAmplitudes(coords)) is evaluated
\* (quantum-math.test.ts:92-98)
AmplitudeRoundTrip(coords) ==
  /\ call = NoCall
  /\ call' = [op |-> "amplitudeRoundTrip", coords |-> coords,
              result |-> amplitudesToSpherical(sphericalToAmplitudes(coords))]
  /\ UNCHANGED driverVars

\* cartesianToSpherical(cart) is called
CartesianToSphericalCall(cart) ==
  /\ call = NoCall
  /\ call' = [op |-> "cartesianToSpherical", cart |-> cart,
              result |-> cartesianToSpherical(cart)]
  /\ UNCHANGED driverVars

\* amplitudesToSpherical(amp) is called
AmplitudesToSphericalCall(amp) ==
  /\ call = NoCall
  /\ call' = [op |-> "amplitudesToSpherical", amp |-> amp,
              result |-> amplitudesToSpherical(amp)]
  /\ UNCHANGED driverVars

\* BlochSphere is rendered with a history and a trajectory prop
TrajectoryRender(history, trajectory) ==
  /\ call = NoCall
  /\ call' = [op |-> "trajectory", history |-> history,
              trajectory |-> trajectory,
              drawn |-> TrajectoryElement(history, trajectory)]
  /\ UNCHANGED driverVars

\* easingFunctions[easing](t) is called
EasingCall(easing, t) ==
  /\ call = NoCall
  /\ call' = [op |-> "easing", easing |-> easing, t |-> t,
              result |-> easingFunctions(easing, t)]
  /\ UNCHANGED driverVars

\* the props of a component that stays as mounted while a function is
\* called
IdleProps ==
  [target |-> Coords(90, 0), enabled |-> TRUE, duration |-> 2,
   easing |-> "linear", onStateChange |-> 1]

ApiInit == Mounted(IdleProps)

ApiNext ==
  \/ \E pair \in SlerpPairs, t \in Fractions :
       SlerpCall(pair[1], pair[2], t)
  \/ \E coords \in Points : CartesianRoundTrip(coords)
  \/ \E coords \in Points : AmplitudeRoundTrip(coords)
  \/ \E cart \in Vectors : CartesianToSphericalCall(cart)
  \/ \E amp \in Amplitudes : AmplitudesToSphericalCall(amp)
  \/ \E history \in Histories, trajectory \in TrajectoryConfigs :
       TrajectoryRender(history, trajectory)
  \/ \E easing \in EasingKinds, t \in Fractions : EasingCall(easing, t)

ApiSpec == ApiInit /\ [][ApiNext]_vars

\* ------------------------------------------------------------------------
\* Properties
\* ------------------------------------------------------------------------

\* the number of onAnimationStart calls among the calls of a step
CountStart(calls) == Cardinality({i \in DOMAIN calls : calls[i] = "start"})

CountEnd(calls) == Cardinality({i \in DOMAIN calls : calls[i] = "end"})

\* the last step was a frame callback that computed a proper state (its
\* duration and its start point are numbers)
ProperTick == step = "frame" /\ ~HasNaN(updateQueue[1])

\* C1: once a differing target B has been received by an enabled driver
\* with an animation toward A in flight, no frame callback of A's animation
\* runs any more (so it neither sets the state nor fires onAnimationEnd)
C1_SupersededNeverTicks == ProperTick => ticked >= received

\* a frame callback of the animation in flight has run after B was received
\* and before the effect that starts B's animation
C1_TickAfterReceipt == step = "frame" /\ ticked < received

\* what does hold: a frame callback that runs belongs to the animation
\* started last
TickedIsLatest == ticked # 0 => ticked = started

\* the end tick of the animation started last has just run and has set the
\* state to the target of that animation
AnimationCompleted ==
  /\ step = "frame"
  /\ CountEnd(out) = 1
  /\ ticked = started
  /\ updateQueue = << prevTargetRef >>

\* C2: with durations above zero and fair scheduling, an animation that
\* has started is eventually superseded by a new target or completes with
\* the state at its target and onAnimationEnd fired
C2_StartedAnimationEnds ==
  [](rendered.duration > 0)
    => ((status = "running") ~> (status = "superseded" \/ AnimationCompleted))

\* the passive effects of a commit run in this step
EffectsRun == step' = "effects"

\* the effects that run find a target that differs from the tracked one
TargetChangeDue ==
  EffectsRun /\ ~isFirstRender /\ Differs(prevTargetRef, rendered.target)

\* C3: onAnimationStart is called once by the effects that process a
\* differing target with enabled = true, and never otherwise; no differing
\* target is left unprocessed
C3_StartOncePerTargetChange ==
  /\ [](~EffectsPending => ~Differs(prevTargetRef, rendered.target))
  /\ [][CountStart(out') =
          (IF TargetChangeDue /\ rendered.enabled THEN 1 ELSE 0)]_vars

C3_Started ==
  step = "effects" /\ out = << "start" >> /\ changes >= 1 /\ rendered.enabled

\* C4: the start point an animation captures is the point of the sphere
\* the driver has set last, also when a frame of the previous animation ran
\* between the render that delivered the target and the effect that starts
\* it
C4_StartIsLatestState ==
  [][(CountStart(out') = 1 /\ ~HasNaN(NextState))
       => sphericalToCartesian(startStateRef')
            = sphericalToCartesian(NextState)]_vars

\* C5: from the render that delivers a differing target with enabled =
\* false no frame callback runs (so that no interpolated state is set and
\* onAnimationEnd is not called); the effects that process the target set
\* the state to it, leave no frame callback requested and call neither
\* onAnimationStart nor onAnimationEnd; until another target is delivered
\* no frame runs and the next state rendered is the target
C5_DisabledJumps ==
  /\ [][(step = "target" /\ ~rendered.enabled) => ~ProperTick']_vars
  /\ [][(TargetChangeDue /\ ~rendered.enabled)
          => /\ (IF updateQueue' # << >> THEN updateQueue'[1]
                 ELSE rendered'.currentState) = rendered.target
             /\ frames' = {}
             /\ out' = << >>]_vars
  /\ [](status = "jumped"
          => /\ frames = {}
             /\ ticked = 0
             /\ out = << >>
             /\ NextState = rendered.target)

\* the parent renders the tracked target again, with whatever configuration
TrackedTargetRender ==
  /\ renders' = renders + 1
  /\ ~Differs(prevTargetRef, rendered'.target)

\* the effects of a render with the tracked target run
TrackedTargetEffects ==
  /\ EffectsRun
  /\ step \in {"identical", "config"}
  /\ ~Differs(prevTargetRef, rendered.target)

\* C6: a render with the tracked target and the effects that follow it
\* change nothing in the driver: the refs and the requested frame are the
\* same, the state is the one already set, and no callback is called
C6_IdenticalTargetNoOp ==
  /\ [][TrackedTargetRender
          => /\ rendered'.currentState = NextState
             /\ out' = << >>
             /\ UNCHANGED << startStateRef, startTimeRef, animationRef,
                             frames, prevTargetRef >>]_vars
  /\ [][TrackedTargetEffects
          => /\ out' = << >>
             /\ UNCHANGED << startStateRef, startTimeRef, animationRef,
                             frames, prevTargetRef, updateQueue >>]_vars

\* C7: until a differing target is delivered the state is the initial
\* target, no frame is requested and no animation callback is called
C7_NoInitialAnimation ==
  changes = 0
    => /\ frames = {}
       /\ animationRef = Null
       /\ out = << >>
       /\ ticked = 0
       /\ updateQueue = << >>
       /\ rendered.currentState = rendered.target

C7_ConfigChangedOnly ==
  changes = 0 /\ step = "effects" /\ renders >= 1 /\ rendered.enabled

\* the state rendered holds the very numbers of the state notified last:
\* they are on one point of the grid, and the two are one object or both
\* hold numbers the parent passed
SameNumbers ==
  /\ SameCoords(prevStateRef, rendered.currentState)
  /\ \/ ~rendered.stateChanged
     \/ (stateObject = "given" /\ notifiedObject = "given")

\* C8: once the effects of a render have run, the state it shows is the
\* state notified last; a call carries the rendered state and its Cartesian
\* form, there is one call at most per step, and after the first it is made
\* only for a state that has changed since the call before and never for
\* the numbers notified before
C8_NotifiedOncePerChange ==
  /\ [](~EffectsPending => prevStateRef = rendered.currentState)
  /\ [][notified' # << >>
          => /\ Len(notified') = 1
             /\ notified'[1].state = rendered.currentState
             /\ notified'[1].cart = sphericalToCartesian(notified'[1].state)
             /\ (notifiedObject = "none" \/ rendered.stateChanged)
             /\ ~SameNumbers]_vars

\* C9: at most one frame callback is requested; it is the one animationRef
\* holds, it belongs to the animation started last and it animates toward
\* the tracked target
C9_SingleAnimation ==
  /\ Cardinality(frames) <= 1
  /\ \A f \in frames :
       /\ f.id = animationRef
       /\ f.anim = started
       /\ f.target = prevTargetRef

C9_SecondAnimationInFlight ==
  Cardinality(frames) = 1 /\ started = 2 /\ received = 2

\* the points of the sphere a transition can rest at
RestPoints == {sphericalToCartesian(t) : t \in Targets}

\* C10: while an animation is in flight onStateChange is not called with
\* an intermediate interpolated state, only with a point a transition
\* rests at
C10_NotifiedOnlyAtRest ==
  (notified # << >> /\ frames # {} /\ ~HasNaN(notified[1].state))
    => notified[1].cart \in RestPoints

\* every state the driver has set is rendered and the effects of that
\* render have run
Settled == ~EffectsPending /\ updateQueue = << >>

\* C11: once the driver has settled with a duration above zero,
\* useAnimationStatus of the rendered
\* target and current state is true exactly when a frame callback of an
\* animation is requested
C11_StatusIffAnimating ==
  (Settled /\ ~HasNaN(rendered.currentState) /\ rendered.duration > 0)
    => (useAnimationStatus(rendered.target, rendered.currentState)
          <=> frames # {})

\* the angle between two points of the sphere
AngleBetween(a, b) ==
  Acos(Max(0 - Unit, Min(Unit, Dot(sphericalToCartesian(a),
                                   sphericalToCartesian(b)))))

\* C12: slerp(s, e, 0) is s, slerp(s, e, 1) is e and slerp(p, p, t) is p,
\* in theta and in phi
C12_SlerpEndpoints ==
  call.op = "slerp"
    => /\ call.t = 0 => call.result = call.start
       /\ call.t = Unit => call.result = call.end
       /\ call.start = call.end => call.result = call.start

\* where a point returned by slerp lies: a phi that rounding decides is
\* that of a pole, or is 0 or 2 * Math.PI, and the point is the one of phi 0
Located(coords) ==
  IF coords.phi \in {RoundingNoise, ZeroOrTwoPI}
  THEN [theta |-> coords.theta, phi |-> 0]
  ELSE coords

\* C13: for t in [0, 1] the point slerp returns is not further from start
\* than end is.  Between antipodal points, where rounding decides the
\* point, end is at the angle pi from start and every point is within it.
C13_SlerpOnMinorArc ==
  (call.op = "slerp" /\ 0 <= call.t /\ call.t <= Unit
     /\ call.result # NoiseCoords)
    => AngleBetween(call.start, Located(call.result))
         <= AngleBetween(call.start, call.end) + 1

\* C16: away from the poles cartesianToSpherical undoes sphericalToCartesian
C16_CartesianRoundTrip ==
  (call.op = "cartesianRoundTrip" /\ call.coords.theta > 0
     /\ call.coords.theta < PI)
    => call.result = call.coords

\* C18: every easing function maps 0 to 0, 1 to 1 and [0, 1] into [0, 1]
C18_EasingRange ==
  call.op = "easing"
    => /\ call.t = 0 => call.result = 0
       /\ call.t = Unit => call.result = Unit
       /\ (0 <= call.t /\ call.t <= Unit)
            => (0 <= call.result /\ call.result <= Unit)

\* theta is in [0, pi] and phi in [0, 2 pi)
InRange(coords) ==
  /\ ~HasNaN(coords)
  /\ 0 <= coords.theta /\ coords.theta <= PI
  /\ 0 <= coords.phi /\ coords.phi < TwoPI

\* C14: amplitudesToSpherical of two zero amplitudes and
\* cartesianToSpherical of the zero vector return theta 0 and phi 0
C14_DegenerateInputs ==
  /\ (call.op = "amplitudesToSpherical"
        /\ call.amp.alpha = [real |-> 0, imag |-> 0]
        /\ call.amp.beta = [real |-> 0, imag |-> 0])
       => call.result = Coords(0, 0)
  /\ (call.op = "cartesianToSpherical"
        /\ call.cart = [x |-> 0, y |-> 0, z |-> 0])
       => call.result = Coords(0, 0)

C14_ZeroAmplitudesConverted ==
  /\ call.op = "amplitudesToSpherical"
  /\ call.amp.alpha = [real |-> 0, imag |-> 0]
  /\ call.amp.beta = [real |-> 0, imag |-> 0]
  /\ call.result = Coords(0, 0)

\* C15: amplitudesToSpherical and cartesianToSpherical return theta in
\* [0, pi] and phi in [0, 2 pi) for every finite input
C15_ResultInRange ==
  call.op \in {"amplitudesToSpherical", "cartesianToSpherical"}
    => InRange(call.result)

C16_RoundTripAcrossPi ==
  /\ call.op = "cartesianRoundTrip"
  /\ call.coords = Coords(150, 315)
  /\ call.result = call.coords

\* C17: away from the poles amplitudesToSpherical undoes
\* sphericalToAmplitudes
C17_AmplitudeRoundTrip ==
  (call.op = "amplitudeRoundTrip" /\ call.coords.theta > 0
     /\ call.coords.theta < PI)
    => call.result = call.coords

C17_RoundTripAcrossPi ==
  /\ call.op = "amplitudeRoundTrip"
  /\ call.coords = Coords(150, 315)
  /\ call.result = call.coords

\* the last n entries of a history, as the points of a line
LastPoints(history, n) ==
  [i \in 1..n |->
     Vector3(sphericalToCartesian(history[Len(history) - n + i]))]

\* C19: a trajectory is drawn only with trajectory.enabled and more than
\* one point of history, and for a maxPoints that is not negative the line
\* drawn is made of the last min(length, maxPoints) entries of the history
\* in their order, maxPoints being 100 when none is given
C19_TrajectoryIsRecentHistory ==
  (call.op = "trajectory" /\ call.drawn # << >>
     /\ (call.trajectory.maxPoints = << >>
           \/ call.trajectory.maxPoints[1] >= 0))
    => /\ call.trajectory.enabled
       /\ Len(call.history) > 1
       /\ call.drawn[1]
            = LastPoints(call.history,
                         Min(Len(call.history),
                             IF call.trajectory.maxPoints = << >>
                             THEN DefaultMaxPoints
                             ELSE call.trajectory.maxPoints[1]))

C18_EaseInOutAtOne ==
  /\ call.op = "easing"
  /\ call.easing = "easeInOut"
  /\ call.t = Unit
  /\ call.result = Unit

\* C20: whenever no frame callback is requested, the state the driver has
\* set last is the tracked target, in theta and in phi
C20_IdleAtTarget ==
  (frames = {} /\ ~HasNaN(NextState)) => SameCoords(NextState, prevTargetRef)

\* C21: at every tick the progress given to the easing function is a number
\* within [0, 1], it is clamp(elapsed / duration, 0, 1) where the quotient
\* is a number, the value given to slerp is the eased progress, and the
\* animation ends at the tick exactly when the progress is 1
C21_ProgressClamped ==
  passed # << >>
    => /\ ~IsNaN(passed[1].progress)
       /\ passed[1].progress \in 0..Unit
       /\ passed[1].duration # 0
            => passed[1].progress =
                 Max(0, Min(RDiv(passed[1].elapsed * Unit,
                                 passed[1].duration), Unit))
       /\ passed[1].t = easingFunctions(passed[1].easing, passed[1].progress)
       /\ (out = << "end" >>) <=> (passed[1].progress = Unit)

\* C22: onAnimationEnd has been called at most as many times as
\* onAnimationStart, at most once for each started animation, and no frame
\* callback of an animation that has ended is requested
C22_EndAtMostOncePerStart ==
  /\ Len(ended) <= starts
  /\ \A i, j \in DOMAIN ended : i # j => ended[i] # ended[j]
  /\ \A f \in frames : \A i \in DOMAIN ended : f.anim # ended[i]

C22_TwoStartedTwoEnded == starts = 2 /\ Len(ended) = 2

\* C23: once the component is unmounted no frame callback is requested and
\* no step follows the unmounting: the state is not set again and neither
\* onAnimationEnd nor onStateChange is called
C23_NothingAfterUnmount ==
  ~mounted => /\ frames = {}
              /\ step = "unmount"
              /\ out = << >>
              /\ notified = << >>

C23_UnmountedWhileAnimating ==
  ~mounted /\ status = "running" /\ animationRef # Null

====
